---- MODULE Spec2Model ----
(***************************************************************************)
(* Model of the chat agent of src/app.py and its tools of src/tools.py.    *)
(*                                                                         *)
(* src/app.py builds one process-wide AgentExecutor (agent_executor) over  *)
(* one process-wide ConversationBufferMemory (memory) and serves POST      *)
(* /chat from Flask's threaded development server (app.run, line 110), so  *)
(* several chat() calls can be in flight at once.  A chat() call is        *)
(* modelled as the steps between its blocking points: the request is       *)
(* received and the memory loaded (chat_receive) or the request is turned  *)
(* away (chat_reject), the completion provider answers one round           *)
(* (agent_answer, agent_tool_call, agent_provider_error), a tool handler   *)
(* returns (tool_step), the executor gives up at its iteration bound       *)
(* (force_stop), and the HTTP response is sent (chat_respond).             *)
(*                                                                         *)
(* The states of the agent loop carry the names of spec.md section 4.4.   *)
(* "Reasoning" is the head of the executor's loop: the place where it      *)
(* decides between another provider round and the forced stop.             *)
(***************************************************************************)
EXTENDS Naturals, Sequences, FiniteSets, TLC

\* Chat requests served in one session.
MaxRequests == 2
\* AgentExecutor's iteration bound.  src/app.py:74-80 passes no
\* max_iterations, so the executor runs with its default; the model scales
\* it down and every formula is stated in terms of this name.
MaxIterations == 2
\* Tool invocations other than get_current_time that the completion provider
\* requests in one session.
MaxToolCalls == 2

\* Request-handling threads of the Flask server.
Threads == {"w1", "w2"}

-----------------------------------------------------------------------------
(* The tool registry: src/app.py:31-43 *)

DataTools == {"create_product", "update_product_put", "update_product_patch",
              "update_product_icon"}
IdMutatingTools == {"delete_product", "finalize_product", "delete_product_icon"}
MutatingTools == DataTools \cup IdMutatingTools
ReadTools == {"get_product_details", "get_all_products"}
tools == {"get_current_time", "search_company_docs"} \cup ReadTools \cup MutatingTools

\* A tool name the provider may ask for that is not registered.
UnknownTools == {"send_email"}
ToolNames == tools \cup UnknownTools

\* The shapes of the argument payload the provider supplies for a tool:
\*   "json"      data is a string that parses as JSON
\*   "not_json"  data is a string that is not valid JSON
\*   "ok_args"   the arguments of a tool without data
ArgKinds(name) == IF name \in DataTools THEN {"json", "not_json"} ELSE {"ok_args"}

\* What the collaborator behind a tool does with the call:
\*   product API: connection failure, non-2xx status, 2xx with a JSON object,
\*                2xx with JSON that is not an object, 2xx with a body that is
\*                not JSON;
\*   document index: an answer, a "no information" answer, a failure.
ApiReplies == {"conn_error", "http_error", "ok_object", "ok_nonobject", "ok_notjson"}
SearchReplies == {"answer", "no_info", "search_error"}
Replies(name) ==
    IF name \in ReadTools \cup MutatingTools THEN ApiReplies
    ELSE IF name = "search_company_docs" THEN SearchReplies
    ELSE {"none"}

RequestFailed(reply) == reply \in {"conn_error", "http_error"}

-----------------------------------------------------------------------------
(* Tool handlers: src/tools.py.  A handler's result is the text it returns *)
(* or the exception that leaves it, with the number of HTTP requests it    *)
(* sent to the product API.                                                *)

Returned(text, sent) == [raised |-> "none", text |-> text, sent |-> sent]
Raised(exc, sent) == [raised |-> exc, text |-> "", sent |-> sent]

NotJsonText(name) ==
    IF name = "create_product"
    THEN "Error: The product data provided was not in a valid JSON format."
    ELSE IF name = "update_product_icon"
    THEN "Error: The icon data provided was not in a valid JSON format."
    ELSE "Error: The update data provided was not in a valid JSON format."

get_current_time == Returned("The current time is 10:00 AM.", 0)

\* requests.get; raise_for_status; response.json(); json.dumps.  A body that
\* is not JSON makes response.json() raise requests' JSONDecodeError, which
\* is a RequestException.
get_product_details(reply) ==
    IF RequestFailed(reply) \/ reply = "ok_notjson"
    THEN Returned("An error occurred while retrieving product details", 1)
    ELSE Returned("product JSON", 1)

get_all_products(reply) ==
    IF RequestFailed(reply) \/ reply = "ok_notjson"
    THEN Returned("An error occurred while retrieving products", 1)
    ELSE Returned("products JSON", 1)

\* json.loads(data); requests.post; raise_for_status; response.json();
\* created_product.get(...).  requests' JSONDecodeError is also a
\* json.JSONDecodeError, and that handler comes first.  A JSON body that is
\* not an object has no .get: AttributeError, which no handler catches.
create_product(data, reply) ==
    IF data = "not_json" THEN Returned(NotJsonText("create_product"), 0)
    ELSE IF RequestFailed(reply)
    THEN Returned("An error occurred while creating the product", 1)
    ELSE IF reply = "ok_notjson" THEN Returned(NotJsonText("create_product"), 1)
    ELSE IF reply = "ok_nonobject" THEN Raised("AttributeError", 1)
    ELSE Returned("Product created successfully!", 1)

\* update_product_put without its except json.JSONDecodeError clause.
update_product_put_uncaught(data, reply) ==
    IF data = "not_json" THEN Raised("JSONDecodeError", 0)
    ELSE IF RequestFailed(reply)
    THEN Returned("An error occurred while updating the product", 1)
    ELSE Returned("Product fully updated successfully!", 1)

update_product_put(data, reply) ==
    IF data = "not_json" THEN Returned(NotJsonText("update_product_put"), 0)
    ELSE IF RequestFailed(reply)
    THEN Returned("An error occurred while updating the product", 1)
    ELSE Returned("Product fully updated successfully!", 1)

update_product_patch(data, reply) ==
    IF data = "not_json" THEN Returned(NotJsonText("update_product_patch"), 0)
    ELSE IF RequestFailed(reply)
    THEN Returned("An error occurred while partially updating the product", 1)
    ELSE Returned("Product partially updated successfully!", 1)

\* delete_product retrying a failed request once.
delete_product_retrying(reply) ==
    IF RequestFailed(reply)
    THEN Returned("An error occurred while deleting the product", 2)
    ELSE Returned("Product has been successfully deleted.", 1)

delete_product(reply) ==
    IF RequestFailed(reply)
    THEN Returned("An error occurred while deleting the product", 1)
    ELSE Returned("Product has been successfully deleted.", 1)

finalize_product(reply) ==
    IF RequestFailed(reply)
    THEN Returned("An error occurred while finalizing the product", 1)
    ELSE Returned("Product has been finalized successfully.", 1)

delete_product_icon(reply) ==
    IF RequestFailed(reply)
    THEN Returned("An error occurred while deleting the product icon", 1)
    ELSE Returned("Icon has been successfully deleted.", 1)

update_product_icon(data, reply) ==
    IF data = "not_json" THEN Returned(NotJsonText("update_product_icon"), 0)
    ELSE IF RequestFailed(reply)
    THEN Returned("An error occurred while updating the product icon", 1)
    ELSE Returned("Icon has been successfully updated.", 1)

search_company_docs(reply) ==
    IF reply = "search_error"
    THEN Returned("An error occurred while searching the documents", 0)
    ELSE IF reply = "no_info"
    THEN Returned("I couldn't find any information on that specific topic in our documents.", 0)
    ELSE Returned("document answer", 0)

\* The texts by which a handler reports a failure.
FailureTexts ==
    {NotJsonText(n) : n \in DataTools} \cup
    {"An error occurred while retrieving product details",
     "An error occurred while retrieving products",
     "An error occurred while creating the product",
     "An error occurred while updating the product",
     "An error occurred while partially updating the product",
     "An error occurred while deleting the product",
     "An error occurred while finalizing the product",
     "An error occurred while deleting the product icon",
     "An error occurred while updating the product icon",
     "An error occurred while searching the documents",
     "is not a valid tool, try one of the registered tools"}

-----------------------------------------------------------------------------
(* The tool invoker: AgentExecutor built at src/app.py:74-80 over the      *)
(* registry of src/app.py:31-43.                                           *)

\* The handler registered under a name.
handler(name, args, reply) ==
    CASE name = "get_current_time" -> get_current_time
      [] name = "get_product_details" -> get_product_details(reply)
      [] name = "get_all_products" -> get_all_products(reply)
      [] name = "create_product" -> create_product(args, reply)
      [] name = "update_product_put" -> update_product_put(args, reply)
      [] name = "update_product_patch" -> update_product_patch(args, reply)
      [] name = "delete_product" -> delete_product(reply)
      [] name = "finalize_product" -> finalize_product(reply)
      [] name = "delete_product_icon" -> delete_product_icon(reply)
      [] name = "update_product_icon" -> update_product_icon(args, reply)
      [] OTHER -> search_company_docs(reply)

\* A registered tool is run once; what its handler returns or raises is
\* what the executor gets.
run_tool(name, args, reply) ==
    LET r == handler(name, args, reply)
    IN  [raised |-> r.raised, text |-> r.text, sent |-> r.sent, ran |-> 1]

\* A name outside the registry is answered by the executor itself.
InvalidTool(name) ==
    [raised |-> "none", text |-> "is not a valid tool, try one of the registered tools",
     sent |-> 0, ran |-> 0]

\* A lookup of the handler by name with no branch for a missing name.
invoke_tool_unchecked(name, args, reply) ==
    IF name \in tools THEN run_tool(name, args, reply)
    ELSE [raised |-> "KeyError", text |-> "", sent |-> 0, ran |-> 0]

invoke_tool(name, args, reply) ==
    IF name \in tools THEN run_tool(name, args, reply) ELSE InvalidTool(name)

\* An executor with no iteration bound (max_iterations=None).
should_continue_unbounded(n) == TRUE

\* The executor's loop condition (no max_iterations at src/app.py:74-80).
should_continue(n) == n < MaxIterations

StopText == "Agent stopped due to iteration limit or time limit."
AnswerText == "provider answer"

\* A memory that keeps the last exchange only.
save_context_last_only(history, in, out) ==
    << [role |-> "human", text |-> in], [role |-> "ai", text |-> out] >>

\* ConversationBufferMemory.save_context: the input and the output of the
\* run, and nothing of its intermediate steps, are appended.
save_context(history, in, out) ==
    history \o << [role |-> "human", text |-> in], [role |-> "ai", text |-> out] >>

\* The prompt of src/test_agent.py:26-32 fed without the scratchpad.
format_prompt_no_scratchpad(history, in, steps) ==
    [chat_history |-> history, input |-> in, agent_scratchpad |-> << >>]

\* The prompt of src/app.py:60-67: system message, chat_history, input,
\* agent_scratchpad.
format_prompt(history, in, steps) ==
    [chat_history |-> history, input |-> in, agent_scratchpad |-> steps]

\* The bodies of chat(): src/app.py:96, 103 and 107.
no_message_response == [status |-> 400, body |-> "error", text |-> "No message provided"]
ok_response(out) == [status |-> 200, body |-> "response", text |-> out]
GenericError == "An error occurred during processing."
\* An except clause that answers with the exception's own text.
error_response_detailed(e) == [status |-> 500, body |-> "error", text |-> e]
error_response(e) == [status |-> 500, body |-> "error", text |-> GenericError]

\* What Flask answers when chat() itself raises: request.json on a body that
\* is not JSON aborts with a 400 page, any other exception with a 500 page.
flask_error_page(status) == [status |-> status, body |-> "html", text |-> "error page"]

-----------------------------------------------------------------------------
VARIABLES
    transcript,   \* memory.chat_memory.messages
    pc,           \* where each chat() call stands
    user_input,   \* chat(): user_input
    hist,         \* the chat_history the run loaded from memory on entry
    scratch,      \* the run's intermediate steps (agent_scratchpad)
    iterations,   \* the executor's iteration counter
    pending,      \* the tool invocation the provider asked for
    output,       \* response["output"]
    error,        \* the exception leaving agent_executor.invoke
    resp,         \* the HTTP response the latest step sent, and its sender
    prompt,       \* the material last submitted to the completion provider
    llmCalls,     \* provider calls of the current run
    accepted,     \* chat requests received
    invocations,  \* tool invocations requested, get_current_time not counted
    handlerRuns,  \* handler executions of the current run
    apiRequests,  \* HTTP requests the current run sent to the product API
    toolTurns     \* tool invocation/outcome pairs recorded in the session

vars == << transcript, pc, user_input, hist, scratch, iterations, pending, output,
           error, resp, prompt, llmCalls, accepted, invocations, handlerRuns,
           apiRequests, toolTurns >>

NoRequest == [tool |-> "none", args |-> "none"]
NoResponse == [to |-> "none", status |-> 0, body |-> "none", text |-> ""]
\* The response r, sent by thread t.
sent_by(t, r) == [to |-> t, status |-> r.status, body |-> r.body, text |-> r.text]
NoPrompt == format_prompt(<< >>, "", << >>)

\* The request bodies POSTed to /chat.
Bodies == {"message", "empty_message", "no_message", "not_object", "not_json"}
Message == "hello"

InFlight == {"Reasoning", "ToolExecuting"}

Init ==
    /\ transcript = << >>
    /\ pc = [t \in Threads |-> "AwaitingUserInput"]
    /\ user_input = [t \in Threads |-> ""]
    /\ hist = [t \in Threads |-> << >>]
    /\ scratch = [t \in Threads |-> << >>]
    /\ iterations = [t \in Threads |-> 0]
    /\ pending = [t \in Threads |-> NoRequest]
    /\ output = [t \in Threads |-> ""]
    /\ error = [t \in Threads |-> "none"]
    /\ resp = NoResponse
    /\ prompt = [t \in Threads |-> NoPrompt]
    /\ llmCalls = [t \in Threads |-> 0]
    /\ accepted = 0
    /\ invocations = 0
    /\ handlerRuns = [t \in Threads |-> 0]
    /\ apiRequests = [t \in Threads |-> 0]
    /\ toolTurns = 0

\* chat(), src/app.py:92-96: a request whose body carries no usable message.
chat_reject(t, body) ==
    /\ pc[t] = "AwaitingUserInput"
    /\ body # "message"
    /\ accepted < MaxRequests
    /\ accepted' = accepted + 1
    /\ resp' = sent_by(t, IF body = "not_json" THEN flask_error_page(400)
                           ELSE IF body = "not_object" THEN flask_error_page(500)
                           ELSE no_message_response)
    /\ UNCHANGED << transcript, pc, user_input, hist, scratch, iterations, pending,
                    output, error, prompt, llmCalls, invocations, handlerRuns,
                    apiRequests, toolTurns >>

\* chat(), src/app.py:92-100: a message arrives and agent_executor.invoke
\* loads chat_history from memory.
chat_receive(t) ==
    /\ pc[t] = "AwaitingUserInput"
    /\ accepted < MaxRequests
    /\ accepted' = accepted + 1
    /\ pc' = [pc EXCEPT ![t] = "Reasoning"]
    /\ user_input' = [user_input EXCEPT ![t] = Message]
    /\ hist' = [hist EXCEPT ![t] = transcript]
    /\ resp' = NoResponse
    /\ UNCHANGED << transcript, scratch, iterations, pending, output, error, prompt,
                    llmCalls, invocations, handlerRuns, apiRequests, toolTurns >>

\* One Reasoning round: the prompt is submitted to the provider.
submit(t) ==
    /\ pc[t] = "Reasoning"
    /\ should_continue(iterations[t])
    /\ prompt' = [prompt EXCEPT ![t] = format_prompt(hist[t], user_input[t], scratch[t])]
    /\ llmCalls' = [llmCalls EXCEPT ![t] = @ + 1]

\* The provider answers in natural language: the run ends and is saved.
agent_answer(t) ==
    /\ submit(t)
    /\ output' = [output EXCEPT ![t] = AnswerText]
    /\ transcript' = save_context(transcript, user_input[t], AnswerText)
    /\ pc' = [pc EXCEPT ![t] = "FinalAnswerReady"]
    /\ resp' = NoResponse
    /\ UNCHANGED << user_input, hist, scratch, iterations, pending, error,
                    accepted, invocations, handlerRuns, apiRequests, toolTurns >>

\* The provider asks for a tool.
agent_tool_call(t, name, args) ==
    /\ submit(t)
    /\ name # "get_current_time" => invocations < MaxToolCalls
    /\ invocations' = IF name # "get_current_time" THEN invocations + 1 ELSE invocations
    /\ pending' = [pending EXCEPT ![t] = [tool |-> name, args |-> args]]
    /\ pc' = [pc EXCEPT ![t] = "ToolExecuting"]
    /\ resp' = NoResponse
    /\ UNCHANGED << transcript, user_input, hist, scratch, iterations, output, error,
                    accepted, handlerRuns, apiRequests, toolTurns >>

\* The provider fails: the exception leaves agent_executor.invoke.
agent_provider_error(t) ==
    /\ submit(t)
    /\ error' = [error EXCEPT ![t] = "ProviderError"]
    /\ pc' = [pc EXCEPT ![t] = "Failed"]
    /\ resp' = NoResponse
    /\ UNCHANGED << transcript, user_input, hist, scratch, iterations, pending, output,
                    accepted, invocations, handlerRuns, apiRequests, toolTurns >>

\* The requested tool is invoked; its text becomes the step's observation,
\* an exception leaving it leaves agent_executor.invoke too.
tool_step(t, reply) ==
    /\ pc[t] = "ToolExecuting"
    /\ LET r == invoke_tool(pending[t].tool, pending[t].args, reply)
       IN  /\ apiRequests' = [apiRequests EXCEPT ![t] = @ + r.sent]
           /\ handlerRuns' = [handlerRuns EXCEPT ![t] = @ + r.ran]
           /\ IF r.raised = "none"
              THEN /\ scratch' = [scratch EXCEPT ![t] =
                         Append(@, [tool |-> pending[t].tool, args |-> pending[t].args,
                                    outcome |-> r.text])]
                   /\ toolTurns' = toolTurns + 1
                   /\ iterations' = [iterations EXCEPT ![t] = @ + 1]
                   /\ pc' = [pc EXCEPT ![t] = "Reasoning"]
                   /\ error' = error
              ELSE /\ error' = [error EXCEPT ![t] = r.raised]
                   /\ pc' = [pc EXCEPT ![t] = "Failed"]
                   /\ UNCHANGED << scratch, toolTurns, iterations >>
    /\ pending' = [pending EXCEPT ![t] = NoRequest]
    /\ resp' = NoResponse
    /\ UNCHANGED << transcript, user_input, hist, output, prompt, llmCalls,
                    accepted, invocations >>

\* The iteration bound is reached: the executor answers with its stop text.
force_stop(t) ==
    /\ pc[t] = "Reasoning"
    /\ ~should_continue(iterations[t])
    /\ output' = [output EXCEPT ![t] = StopText]
    /\ transcript' = save_context(transcript, user_input[t], StopText)
    /\ pc' = [pc EXCEPT ![t] = "FinalAnswerReady"]
    /\ resp' = NoResponse
    /\ UNCHANGED << user_input, hist, scratch, iterations, pending, error, prompt,
                    llmCalls, accepted, invocations, handlerRuns, apiRequests, toolTurns >>

\* chat(), src/app.py:101-107: the answer, or the generic error.
chat_respond(t) ==
    /\ pc[t] \in {"FinalAnswerReady", "Failed"}
    /\ resp' = sent_by(t, IF pc[t] = "FinalAnswerReady" THEN ok_response(output[t])
                           ELSE error_response(error[t]))
    /\ pc' = [pc EXCEPT ![t] = "AwaitingUserInput"]
    /\ user_input' = [user_input EXCEPT ![t] = ""]
    /\ hist' = [hist EXCEPT ![t] = << >>]
    /\ scratch' = [scratch EXCEPT ![t] = << >>]
    /\ iterations' = [iterations EXCEPT ![t] = 0]
    /\ output' = [output EXCEPT ![t] = ""]
    /\ error' = [error EXCEPT ![t] = "none"]
    /\ prompt' = [prompt EXCEPT ![t] = NoPrompt]
    /\ llmCalls' = [llmCalls EXCEPT ![t] = 0]
    /\ handlerRuns' = [handlerRuns EXCEPT ![t] = 0]
    /\ apiRequests' = [apiRequests EXCEPT ![t] = 0]
    /\ UNCHANGED << transcript, pending, accepted, invocations, toolTurns >>

Next ==
    \E t \in Threads :
        \/ \E body \in Bodies : chat_reject(t, body)
        \/ chat_receive(t)
        \/ agent_answer(t)
        \/ \E name \in ToolNames : \E args \in ArgKinds(name) : agent_tool_call(t, name, args)
        \/ agent_provider_error(t)
        \/ \E reply \in Replies(pending[t].tool) : tool_step(t, reply)
        \/ force_stop(t)
        \/ chat_respond(t)

Spec == Init /\ [][Next]_vars

-----------------------------------------------------------------------------
(* Properties *)

IsPrefix(a, b) == Len(a) <= Len(b) /\ SubSeq(b, 1, Len(a)) = a
Last(q) == q[Len(q)]
ToolTurnsIn(p) ==
    Len(p.agent_scratchpad)
      + Cardinality({i \in DOMAIN p.chat_history : p.chat_history[i].role = "tool"})
\* The step of thread t is a submission to the completion provider.
Submits(t) == llmCalls'[t] = llmCalls[t] + 1
\* The step of thread t is the execution of its pending tool invocation.
Executes(t) == pc[t] = "ToolExecuting" /\ pc'[t] # "ToolExecuting"
\* A run can take its next step.
CanProceed(t) ==
    ENABLED (agent_answer(t) \/ force_stop(t) \/ \E reply \in Replies(pending[t].tool) : tool_step(t, reply))

C2_ToolFailureNeverEndsTheRun ==
    \A t \in Threads : error[t] \in {"none", "ProviderError"}

\* C3: when the provider asks for a tool that is not registered, no handler
\* runs and no request is sent, a failure text naming the problem is recorded
\* as the outcome of that invocation, the loop is back at Reasoning, and no
\* exception is raised.
C3_UnknownToolIsReported ==
    [][\A t \in Threads :
          (Executes(t) /\ pending[t].tool \notin tools) =>
              /\ handlerRuns' = handlerRuns
              /\ apiRequests' = apiRequests
              /\ pc'[t] = "Reasoning"
              /\ error'[t] = "none"
              /\ Len(scratch'[t]) = Len(scratch[t]) + 1
              /\ Last(scratch'[t]).tool = pending[t].tool
              /\ Last(scratch'[t]).outcome \in FailureTexts
              /\ Last(scratch'[t]).outcome = "is not a valid tool, try one of the registered tools"]_vars

C3_Witness ==
    \E t \in Threads :
        /\ pc[t] = "Reasoning"
        /\ scratch[t] # << >>
        /\ Last(scratch[t]).tool \in UnknownTools
        /\ handlerRuns[t] = 0
        /\ error[t] = "none"

C5_RunsAreSerialized ==
    /\ \A t1, t2 \in Threads :
          t1 # t2 => ~(pc[t1] \in InFlight /\ pc[t2] \in InFlight)
    /\ \A t \in Threads :
          pc[t] = "FinalAnswerReady" => Len(transcript) = Len(hist[t]) + 2

\* No run call other than t's is under way.
Alone(t) == \A u \in Threads \ {t} : pc[u] = "AwaitingUserInput"

C7_ProviderFailureIsGeneric ==
    [][\A t \in Threads :
          error[t] = "ProviderError" =>
              /\ pc[t] = "Failed"
              /\ llmCalls'[t] <= llmCalls[t]
              /\ handlerRuns'[t] <= handlerRuns[t]
              /\ apiRequests'[t] <= apiRequests[t]
              /\ pending'[t] = NoRequest
              /\ pc'[t] \in {"Failed", "AwaitingUserInput"}
              /\ pc'[t] = "AwaitingUserInput" =>
                    resp' = [to |-> t, status |-> 500, body |-> "error",
                             text |-> "An error occurred during processing."]]_vars

C7_Witness ==
    \E t \in Threads :
        /\ error[t] = "ProviderError"
        /\ pc[t] = "Failed"
        /\ scratch[t] # << >>

\* C8: every answer of the chat endpoint is {response} or, with a non-2xx
\* status, {error}; a request without a usable message is answered {error}.
C8_AnswerIsResponseOrError ==
    /\ resp.body \in {"none", "response", "error"}
    /\ resp.body = "response" => resp.status = 200
    /\ resp.body = "error" => resp.status >= 400

\* C9: a data tool given data that is not valid JSON sends no request to the
\* product API and returns its "not in a valid JSON format" text, which is
\* recorded as the outcome and is in the prompt of the next Reasoning round.
C9_InvalidJsonIsReported ==
    [][\A t \in Threads :
          /\ (Executes(t) /\ pending[t].tool \in DataTools /\ pending[t].args = "not_json") =>
                /\ apiRequests' = apiRequests
                /\ pc'[t] = "Reasoning"
                /\ error'[t] = "none"
                /\ Len(scratch'[t]) = Len(scratch[t]) + 1
                /\ Last(scratch'[t]).tool = pending[t].tool
                /\ Last(scratch'[t]).outcome \in
                      {"Error: The product data provided was not in a valid JSON format.",
                       "Error: The update data provided was not in a valid JSON format.",
                       "Error: The icon data provided was not in a valid JSON format."}
          /\ Submits(t) =>
                \A i \in DOMAIN scratch[t] :
                    scratch[t][i].args = "not_json" =>
                        /\ i \in DOMAIN prompt'[t].agent_scratchpad
                        /\ prompt'[t].agent_scratchpad[i] = scratch[t][i]]_vars

C9_Witness ==
    \E t \in Threads :
        /\ scratch[t] # << >>
        /\ Last(scratch[t]).tool \in DataTools
        /\ Last(scratch[t]).args = "not_json"
        /\ prompt[t].agent_scratchpad = scratch[t]
        /\ apiRequests[t] = 0

\* C10: one tool invocation sends at most one request to the product API,
\* also when the request fails, and only the execution of an invocation the
\* provider asked for sends one: a run has sent no more requests than it has
\* executed invocations.
C10_OneRequestPerInvocation ==
    [][\A t \in Threads :
          /\ apiRequests'[t] <= apiRequests[t] + 1
          /\ apiRequests'[t] > apiRequests[t] => (Executes(t) /\ pending[t].tool \in tools)
          /\ apiRequests[t] <= Len(scratch[t]) + (IF error[t] \in {"none", "ProviderError"} THEN 0 ELSE 1)]_vars

C10_Witness ==
    \E t \in Threads :
        /\ Len(scratch[t]) = 1
        /\ Last(scratch[t]).tool \in MutatingTools
        /\ Last(scratch[t]).args \in {"json", "ok_args"}
        /\ Last(scratch[t]).outcome \in FailureTexts
        /\ apiRequests[t] = 1
        /\ pc[t] = "Reasoning"

====
